---- MODULE Spec2Model ----
(***************************************************************************)
(* Model of tools/apk_utils.py: sign(unsigned_apk, signed_apk, keystore).  *)
(* The function prints a banner, runs `zip -d <unsigned> META-INF/*` with  *)
(* subprocess.call (status ignored) and then runs jarsigner with           *)
(* subprocess.check_call (non-zero status raises CalledProcessError).      *)
(* The two external tools are modelled as interpreters of the argument     *)
(* vector they receive, acting on a small filesystem.                      *)
(***************************************************************************)
EXTENDS Naturals, Sequences, FiniteSets, TLC

VARIABLES pc, unsigned_apk, signed_apk, keystore, cmd, stdout, children,
          error, fs, fs0

vars == <<pc, unsigned_apk, signed_apk, keystore, cmd, stdout, children,
          error, fs, fs0>>

(* ---------------------------- bounds ----------------------------------- *)
NumPaths == 3
MaxStatus == 2

Paths == {"path" \o ToString(i) : i \in 1..NumPaths}
ExitStatuses == 0..MaxStatus
NonZero == 1..MaxStatus

(* ------------------------- the filesystem ------------------------------ *)
\* What a path holds: nothing, an archive with META-INF/ entries, an archive
\* without them, an archive signed with the debug key, a partially written
\* archive, or a keystore holding the debug key.
InitFileStates == {"absent", "apk_meta", "apk_clean", "keystore"}
IsArchive(f) == f \in {"apk_meta", "apk_clean", "signed"}
HasMetaInf(f) == f \in {"apk_meta", "signed"}

(* --------------------------- sign's code ------------------------------- *)
Banner == <<"Signing (ignore the warnings)">>

ZipCmd_WrongTarget(u, s, k) == <<"zip", "-d", s, "META-INF/*">>
ZipCmd(u, s, k) == <<"zip", "-d", u, "META-INF/*">>

SignCmd_Swapped(u, s, k) ==
  <<"jarsigner", "-sigalg", "SHA1withRSA", "-digestalg", "SHA1",
    "-keystore", k, "-storepass", "android", "-signedjar", u, s,
    "androiddebugkey">>
SignCmd_KeystoreAsPass(u, s, k) ==
  <<"jarsigner", "-sigalg", "SHA1withRSA", "-digestalg", "SHA1",
    "-keystore", k, "-storepass", k, "-signedjar", s, u,
    "androiddebugkey">>
SignCmd(u, s, k) ==
  <<"jarsigner", "-sigalg", "SHA1withRSA", "-digestalg", "SHA1",
    "-keystore", k, "-storepass", "android", "-signedjar", s, u,
    "androiddebugkey">>

\* utils.PrintCmd(cmd): one line of diagnostic text describing the command.
PrintCmd(c) == <<"Running:">> \o c

\* subprocess.call returns the status and never raises on it;
\* subprocess.check_call raises CalledProcessError on a non-zero status.
CallRaises_Checked(retcode) == retcode # 0
CallRaises(retcode) == FALSE
CheckCallRaises_Ignored(retcode) == FALSE
CheckCallRaises(retcode) == retcode # 0

NoError == [type |-> "none", returncode |-> 0, cmd |-> <<>>]
CalledProcessError_Lossy(retcode, c) ==
  [type |-> "CalledProcessError", returncode |-> 1, cmd |-> c]
CalledProcessError(retcode, c) ==
  [type |-> "CalledProcessError", returncode |-> retcode, cmd |-> c]
OSError(c) == [type |-> "OSError", returncode |-> 0, cmd |-> c]

Child(argv, state, status) == [argv |-> argv, state |-> state, status |-> status]

(* ------------------------- the external tools -------------------------- *)
\* zip -d <archive> <pattern>: the (status, new content) pairs zip can end
\* with. Deleting matching entries exits 0; no matching entry, or no
\* archive, exits non-zero; an archive that cannot be rewritten exits
\* non-zero and is left as it was.
ZipOutcomes(argv, files) ==
  IF Len(argv) = 4 /\ argv[1] = "zip" /\ argv[2] = "-d" /\ argv[3] \in DOMAIN files
  THEN LET f == files[argv[3]] IN
       IF argv[4] = "META-INF/*" /\ HasMetaInf(f)
       THEN {<<0, [files EXCEPT ![argv[3]] = "apk_clean"]>>}
            \cup {<<st, files>> : st \in NonZero}
       ELSE {<<st, files>> : st \in NonZero}
  ELSE {<<st, files>> : st \in NonZero}

\* jarsigner can sign when its options are well formed, the store password
\* and alias match the debug keystore, the keystore exists and the input is
\* an archive.
JarsignerCanSign(argv, files) ==
  /\ Len(argv) = 13
  /\ argv[1] = "jarsigner"
  /\ argv[2] = "-sigalg" /\ argv[3] = "SHA1withRSA"
  /\ argv[4] = "-digestalg" /\ argv[5] = "SHA1"
  /\ argv[6] = "-keystore" /\ argv[7] \in DOMAIN files
  /\ argv[8] = "-storepass" /\ argv[9] = "android"
  /\ argv[10] = "-signedjar" /\ argv[11] \in DOMAIN files
  /\ argv[12] \in DOMAIN files
  /\ argv[13] = "androiddebugkey"
  /\ files[argv[7]] = "keystore"
  /\ IsArchive(files[argv[12]])

\* Exit 0 writes the signed archive at the -signedjar path; a non-zero exit
\* leaves that path as it was or partially written.
JarsignerOutcomes(argv, files) ==
  (IF JarsignerCanSign(argv, files)
   THEN {<<0, [files EXCEPT ![argv[11]] = "signed"]>>}
   ELSE {})
  \cup {<<st, files>> : st \in NonZero}
  \cup (IF Len(argv) >= 11 /\ argv[11] \in DOMAIN files
        THEN {<<st, [files EXCEPT ![argv[11]] = "partial"]>> : st \in NonZero}
        ELSE {})

(* ------------------------------ Init ----------------------------------- *)
Init ==
  /\ pc = "banner"
  /\ unsigned_apk \in Paths
  /\ signed_apk \in Paths
  /\ keystore \in Paths
  /\ cmd = <<>>
  /\ stdout = <<>>
  /\ children = <<>>
  /\ error = NoError
  /\ fs \in [Paths -> InitFileStates]
  /\ fs0 = fs

(* ----------------------------- actions --------------------------------- *)
\* line 10
PrintBanner ==
  /\ pc = "banner"
  /\ stdout' = Append(stdout, Banner)
  /\ pc' = "zip_cmd"
  /\ UNCHANGED <<unsigned_apk, signed_apk, keystore, cmd, children, error, fs, fs0>>

\* lines 11-12
PrintZipCmd_Silent ==
  /\ pc = "zip_cmd"
  /\ cmd' = ZipCmd(unsigned_apk, signed_apk, keystore)
  /\ pc' = "zip_call"
  /\ UNCHANGED <<unsigned_apk, signed_apk, keystore, stdout, children, error, fs, fs0>>
PrintZipCmd ==
  /\ pc = "zip_cmd"
  /\ cmd' = ZipCmd(unsigned_apk, signed_apk, keystore)
  /\ stdout' = Append(stdout, PrintCmd(cmd'))
  /\ pc' = "zip_call"
  /\ UNCHANGED <<unsigned_apk, signed_apk, keystore, children, error, fs, fs0>>

\* line 13, subprocess.call: the child is started
SpawnZip_NoWait ==
  /\ pc = "zip_call"
  /\ children' = Append(children, Child(cmd, "running", 0))
  /\ pc' = "sign_cmd"
  /\ UNCHANGED <<unsigned_apk, signed_apk, keystore, cmd, stdout, error, fs, fs0>>
SpawnZip ==
  /\ pc = "zip_call"
  /\ children' = Append(children, Child(cmd, "running", 0))
  /\ pc' = "zip_wait"
  /\ UNCHANGED <<unsigned_apk, signed_apk, keystore, cmd, stdout, error, fs, fs0>>

\* line 13, subprocess.call: the executable cannot be started, OSError
ZipLaunchFails_Swallowed ==
  /\ pc = "zip_call"
  /\ children' = Append(children, Child(cmd, "launch_failed", 0))
  /\ pc' = "sign_cmd"
  /\ UNCHANGED <<unsigned_apk, signed_apk, keystore, cmd, stdout, error, fs, fs0>>
ZipLaunchFails ==
  /\ pc = "zip_call"
  /\ children' = Append(children, Child(cmd, "launch_failed", 0))
  /\ error' = OSError(cmd)
  /\ pc' = "raised"
  /\ UNCHANGED <<unsigned_apk, signed_apk, keystore, cmd, stdout, fs, fs0>>

\* line 13, subprocess.call: zip runs to its end, call returns its status
ZipExit ==
  /\ pc = "zip_wait"
  /\ \E o \in ZipOutcomes(children[Len(children)].argv, fs) :
       /\ children' = [children EXCEPT ![Len(children)] =
                         Child(@.argv, "exited", o[1])]
       /\ fs' = o[2]
       /\ IF CallRaises(o[1])
          THEN /\ error' = CalledProcessError(o[1], cmd)
               /\ pc' = "raised"
          ELSE /\ error' = error
               /\ pc' = "sign_cmd"
  /\ UNCHANGED <<unsigned_apk, signed_apk, keystore, cmd, stdout, fs0>>

\* lines 14-24
PrintSignCmd ==
  /\ pc = "sign_cmd"
  /\ cmd' = SignCmd(unsigned_apk, signed_apk, keystore)
  /\ stdout' = Append(stdout, PrintCmd(cmd'))
  /\ pc' = "sign_call"
  /\ UNCHANGED <<unsigned_apk, signed_apk, keystore, children, error, fs, fs0>>

\* line 25, subprocess.check_call: the child is started
SpawnJarsigner ==
  /\ pc = "sign_call"
  /\ children' = Append(children, Child(cmd, "running", 0))
  /\ pc' = "sign_wait"
  /\ UNCHANGED <<unsigned_apk, signed_apk, keystore, cmd, stdout, error, fs, fs0>>

\* line 25, subprocess.check_call: the executable cannot be started, OSError
JarsignerLaunchFails ==
  /\ pc = "sign_call"
  /\ children' = Append(children, Child(cmd, "launch_failed", 0))
  /\ error' = OSError(cmd)
  /\ pc' = "raised"
  /\ UNCHANGED <<unsigned_apk, signed_apk, keystore, cmd, stdout, fs, fs0>>

\* line 25, subprocess.check_call: jarsigner runs to its end; a non-zero
\* status raises CalledProcessError(status, cmd), zero returns from sign
JarsignerExit ==
  /\ pc = "sign_wait"
  /\ \E o \in JarsignerOutcomes(children[Len(children)].argv, fs) :
       /\ children' = [children EXCEPT ![Len(children)] =
                         Child(@.argv, "exited", o[1])]
       /\ fs' = o[2]
       /\ IF CheckCallRaises(o[1])
          THEN /\ error' = CalledProcessError(o[1], cmd)
               /\ pc' = "raised"
          ELSE /\ error' = error
               /\ pc' = "returned"
  /\ UNCHANGED <<unsigned_apk, signed_apk, keystore, cmd, stdout, fs0>>

Next ==
  \/ PrintBanner
  \/ PrintZipCmd
  \/ SpawnZip
  \/ ZipLaunchFails
  \/ ZipExit
  \/ PrintSignCmd
  \/ SpawnJarsigner
  \/ JarsignerLaunchFails
  \/ JarsignerExit

Spec == Init /\ [][Next]_vars

(* --------------------------- vocabulary -------------------------------- *)
Success == pc = "returned"
Raised == pc = "raised"
Terminated == Success \/ Raised
Exited(i) == i \in DOMAIN children /\ children[i].state = "exited"
Running(i) == i \in DOMAIN children /\ children[i].state = "running"
IsTool(i, tool) == i \in DOMAIN children /\ children[i].argv[1] = tool

TypeOK ==
  /\ pc \in {"banner", "zip_cmd", "zip_call", "zip_wait", "sign_cmd",
             "sign_call", "sign_wait", "returned", "raised"}
  /\ Len(children) <= 2
  /\ \A i \in DOMAIN children : children[i].status \in ExitStatuses
  /\ DOMAIN fs = Paths

(* ----------------------------- properties ------------------------------ *)
ExpectedZipArgv == <<"zip", "-d", unsigned_apk, "META-INF/*">>
ExpectedSignArgv ==
  <<"jarsigner", "-sigalg", "SHA1withRSA", "-digestalg", "SHA1",
    "-keystore", keystore, "-storepass", "android",
    "-signedjar", signed_apk, unsigned_apk, "androiddebugkey">>
Emitted(line) == \E j \in DOMAIN stdout : stdout[j] = line
JarsignerFailed ==
  \E i \in DOMAIN children :
    IsTool(i, "jarsigner") /\ Exited(i) /\ children[i].status # 0

\* C1: whenever jarsigner has exited with a non-zero status, sign has raised
\* and has not returned successfully, whatever zip's status was and whatever
\* was written at the signed path.
C1_SigningFailureRaises ==
  JarsignerFailed => (Raised /\ ~Success /\ error.type = "CalledProcessError")

C1_Witness ==
  /\ JarsignerFailed
  /\ Raised
  /\ fs[signed_apk] = "partial"
  /\ Exited(1) /\ children[1].status = 0

\* C2: once zip has exited, with any status, sign goes on to invoke
\* jarsigner, and when sign has ended it has succeeded exactly when jarsigner
\* exited with status 0; zip's status never ends the call.
C2_ZipStatusIgnored ==
  (Exited(1) /\ IsTool(1, "zip")) =>
     /\ Terminated => (Len(children) = 2 /\ IsTool(2, "jarsigner"))
     /\ Success <=> (Exited(2) /\ children[2].status = 0)
     /\ Raised <=> (/\ Len(children) = 2
                    /\ children[2].state # "running"
                    /\ ~(Exited(2) /\ children[2].status = 0))

C2_Witness ==
  /\ Success
  /\ Exited(1) /\ children[1].status # 0
  /\ Exited(2) /\ children[2].status = 0

\* C3: when the unsigned archive held META-INF/ entries, the keystore was
\* valid and jarsigner exited with status 0, sign has returned successfully
\* and a signed archive is at the requested signed path.
C3_SignedOutputProduced ==
  (/\ HasMetaInf(fs0[unsigned_apk])
   /\ fs0[keystore] = "keystore"
   /\ Len(children) = 2 /\ Exited(2) /\ children[2].status = 0)
  => (Success /\ fs[signed_apk] = "signed")

C3_Witness ==
  /\ HasMetaInf(fs0[unsigned_apk])
  /\ fs0[keystore] = "keystore"
  /\ fs0[signed_apk] = "absent"
  /\ Success
  /\ fs[signed_apk] = "signed"

\* C4: whenever sign has returned successfully for an unsigned archive that
\* held META-INF/ entries (the three paths being different files), the
\* unsigned archive holds no META-INF/ entry any more and the signed output
\* exists, also when zip's non-zero status was ignored.
C4_MetaInfStripped ==
  (/\ Success
   /\ HasMetaInf(fs0[unsigned_apk])
   /\ Cardinality({unsigned_apk, signed_apk, keystore}) = 3)
  => (~HasMetaInf(fs[unsigned_apk]) /\ fs[signed_apk] = "signed")

\* C5: the second invocation's argument vector is exactly the jarsigner
\* command with the fixed algorithm, digest, password and alias; only the
\* three path positions come from the arguments.
C5_SignArgvFixed ==
  /\ Len(children) = 2 => children[2].argv = ExpectedSignArgv
  /\ \A i \in DOMAIN children :
       IsTool(i, "jarsigner") => children[i].argv = ExpectedSignArgv

C5_Witness ==
  /\ Len(children) = 2 /\ Exited(2)
  /\ Cardinality({unsigned_apk, signed_apk, keystore}) = 3

\* C6: the first invocation's argument vector is exactly
\* zip -d <unsigned> META-INF/*, whatever the signed path and keystore are.
C6_ZipArgvFixed ==
  /\ Len(children) >= 1 => children[1].argv = ExpectedZipArgv
  /\ \A i \in DOMAIN children :
       IsTool(i, "zip") => children[i].argv = ExpectedZipArgv

C6_Witness ==
  /\ Exited(1)
  /\ Cardinality({unsigned_apk, signed_apk, keystore}) = 3

\* C7: the steps are sequential: at most two invocations, zip first and
\* jarsigner second, each at most once, jarsigner only after zip has exited,
\* never two children running at once, and nothing is started after sign
\* has ended.
C7_StrictlySequential ==
  /\ Len(children) <= 2
  /\ Cardinality({i \in DOMAIN children : Running(i)}) <= 1
  /\ Len(children) >= 1 => IsTool(1, "zip")
  /\ Len(children) = 2 => (IsTool(2, "jarsigner") /\ Exited(1))
  /\ Terminated => \A i \in DOMAIN children : ~Running(i)

C7_Witness ==
  /\ Len(children) = 2
  /\ Running(2)
  /\ Exited(1) /\ children[1].status # 0

\* C8: when sign has raised because jarsigner exited non-zero, the error
\* carries jarsigner's argument vector and jarsigner's exit status, not
\* zip's command.
C8_ErrorCarriesCmdAndStatus ==
  (Raised /\ Len(children) = 2 /\ Exited(2) /\ children[2].status # 0)
  => /\ error.type = "CalledProcessError"
     /\ error.cmd = children[2].argv
     /\ error.cmd = ExpectedSignArgv
     /\ error.cmd # children[1].argv
     /\ error.returncode = children[2].status

C8_Witness ==
  /\ Raised /\ Len(children) = 2 /\ Exited(2)
  /\ children[2].status > 1
  /\ children[1].status # 0
  /\ children[1].status # children[2].status

\* C9: every invocation's diagnostic line is on the output before the
\* command is started; jarsigner's line appears only after zip has exited;
\* a call that fails in signing has emitted both lines.
C9_DiagnosticsPrecedeCommands ==
  /\ \A i \in DOMAIN children : Emitted(PrintCmd(children[i].argv))
  /\ Emitted(PrintCmd(ExpectedSignArgv)) => Exited(1)
  /\ JarsignerFailed => (/\ Emitted(PrintCmd(ExpectedZipArgv))
                         /\ Emitted(PrintCmd(ExpectedSignArgv)))

C9_Witness ==
  /\ JarsignerFailed
  /\ Raised
  /\ Emitted(PrintCmd(ExpectedZipArgv))
  /\ Emitted(PrintCmd(ExpectedSignArgv))

\* C10: when zip cannot be started at all, sign has raised an error, no
\* second invocation is ever made and the filesystem is as it was at the
\* call, so no signed output is produced.
C10_ZipLaunchFailureAborts ==
  (Len(children) >= 1 /\ children[1].state = "launch_failed")
  => /\ Raised
     /\ error.type = "OSError"
     /\ Len(children) = 1
     /\ fs = fs0

C10_Witness ==
  /\ Len(children) = 1 /\ children[1].state = "launch_failed"
  /\ Raised
  /\ HasMetaInf(fs0[unsigned_apk])
  /\ fs0[keystore] = "keystore"
====
